---- MODULE Spec2Model ----
(***************************************************************************)
(* Model of the advent calendar application:                               *)
(*   src/pages/01_Door_Message.py  the door page (load_data, check_access, *)
(*                                 main)                                   *)
(*   src/pages/02_Admin.py         the admin page (load_data,              *)
(*                                 validate_data, save_data,               *)
(*                                 check_password, admin_panel)            *)
(*                                                                         *)
(* Python strings are modelled as sequences of one-character strings, so   *)
(* that strip(), split('-'), int(), strptime() and the string comparison   *)
(* of sort() are computed character by character as the library does.      *)
(* A Streamlit page script is executed from top to bottom at every run;    *)
(* one action of the model is one such run.  The module-level              *)
(* configuration (os.getenv) is read by every run, so it is an input of    *)
(* the run.  Message texts do not influence control flow; the model        *)
(* records which record's message column is shown, not its text.           *)
(***************************************************************************)
EXTENDS Integers, Sequences, FiniteSets, TLC

VARIABLES
    file,              \* content of DATA_FILE (advent_messages.json)
    password_correct,  \* st.session_state["password_correct"]: "unset" | "true" | "false"
    widgets,           \* what the session's last admin run rendered: "none" | "prompt" | "panel"
    door,              \* the last run of the door page (DoorIdle when the last run was another page)
    admin              \* the last run of the admin page (AdminIdle likewise)

vars == <<file, password_correct, widgets, door, admin>>

(***************************************************************************)
(* Strings                                                                 *)
(***************************************************************************)

\* ord(c) for the characters the model uses
Ord(c) ==
    CASE c = " " -> 32
      [] c = "+" -> 43
      [] c = "-" -> 45
      [] c = "0" -> 48
      [] c = "1" -> 49
      [] c = "2" -> 50
      [] c = "3" -> 51
      [] c = "4" -> 52
      [] c = "5" -> 53
      [] c = "6" -> 54
      [] c = "7" -> 55
      [] c = "8" -> 56
      [] c = "9" -> 57
      [] c = "f" -> 102
      [] c = "o" -> 111
      [] c = "x" -> 120

IsDigit(c) == c \in {"0", "1", "2", "3", "4", "5", "6", "7", "8", "9"}

DigitVal(c) == Ord(c) - 48

IsSpace(c) == c = " "

\* str.strip(): leading and trailing whitespace removed
RECURSIVE LStrip(_)
LStrip(s) ==
    IF s # <<>> /\ IsSpace(Head(s)) THEN LStrip(Tail(s)) ELSE s

RECURSIVE RStrip(_)
RStrip(s) ==
    IF s # <<>> /\ IsSpace(s[Len(s)]) THEN RStrip(SubSeq(s, 1, Len(s) - 1)) ELSE s

Strip(s) == RStrip(LStrip(s))

\* the value of a non-empty sequence of decimal digits
RECURSIVE DigitsVal(_)
DigitsVal(s) ==
    IF s = <<>> THEN 0 ELSE 10 * DigitsVal(SubSeq(s, 1, Len(s) - 1)) + DigitVal(s[Len(s)])

AllDigits(s) == s # <<>> /\ \A i \in 1..Len(s) : IsDigit(s[i])

\* int(s) of a str: surrounding whitespace and one sign are accepted, then
\* decimal digits; anything else raises ValueError
PyInt(s) ==
    LET t == Strip(s)
        u == IF t # <<>> /\ Head(t) \in {"+", "-"} THEN Tail(t) ELSE t
        neg == t # <<>> /\ Head(t) = "-"
    IN  IF AllDigits(u)
        THEN [ok |-> TRUE, val |-> IF neg THEN 0 - DigitsVal(u) ELSE DigitsVal(u)]
        ELSE [ok |-> FALSE, val |-> 0]

\* str.split('-'): the parts between the dashes (always at least one part)
RECURSIVE SplitDash(_)
SplitDash(s) ==
    IF \A i \in 1..Len(s) : s[i] # "-"
    THEN <<s>>
    ELSE LET i == CHOOSE k \in 1..Len(s) : s[k] = "-" /\ \A j \in 1..(k - 1) : s[j] # "-"
         IN  <<SubSeq(s, 1, i - 1)>> \o SplitDash(SubSeq(s, i + 1, Len(s)))

\* a < b for two str: comparison by code point, a proper prefix is smaller
RECURSIVE StrLess(_, _)
StrLess(a, b) ==
    IF b = <<>> THEN FALSE
    ELSE IF a = <<>> THEN TRUE
    ELSE IF Ord(Head(a)) # Ord(Head(b)) THEN Ord(Head(a)) < Ord(Head(b))
    ELSE StrLess(Tail(a), Tail(b))

(***************************************************************************)
(* Dates                                                                   *)
(***************************************************************************)

IsLeap(y) == (y % 4 = 0 /\ y % 100 # 0) \/ y % 400 = 0

DaysInMonth(y, m) ==
    IF m = 2 THEN (IF IsLeap(y) THEN 29 ELSE 28)
    ELSE IF m \in {4, 6, 9, 11} THEN 30 ELSE 31

\* the directive %m of strptime: 1[0-2] | 0[1-9] | [1-9]
MatchMonth(p) ==
    \/ Len(p) = 2 /\ p[1] = "1" /\ p[2] \in {"0", "1", "2"}
    \/ Len(p) = 2 /\ p[1] = "0" /\ IsDigit(p[2]) /\ p[2] # "0"
    \/ Len(p) = 1 /\ IsDigit(p[1]) /\ p[1] # "0"

\* the directive %d of strptime: 3[0-1] | [1-2]\d | 0[1-9] | [1-9] | " "[1-9]
MatchDay(p) ==
    \/ Len(p) = 2 /\ p[1] = "3" /\ p[2] \in {"0", "1"}
    \/ Len(p) = 2 /\ p[1] \in {"1", "2"} /\ IsDigit(p[2])
    \/ Len(p) = 2 /\ p[1] = "0" /\ IsDigit(p[2]) /\ p[2] # "0"
    \/ Len(p) = 1 /\ IsDigit(p[1]) /\ p[1] # "0"
    \/ Len(p) = 2 /\ p[1] = " " /\ IsDigit(p[2]) /\ p[2] # "0"

\* the day check of datetime's constructor: 1 <= day <= days in the month
DayInRange(y, m, d) == d >= 1 /\ d <= DaysInMonth(y, m)

\* datetime.strptime(s, '%Y-%m-%d').date(): ok is FALSE where it raises
\* ValueError.  The format is  \d\d\d\d - %m - %d  and must consume the
\* whole string; the year must be at least MINYEAR = 1 and the day must
\* exist in the month.
ParseDate(s) ==
    LET p == SplitDash(s)
        bad == [ok |-> FALSE, d |-> <<0, 0, 0>>]
    IN  IF Len(p) # 3 THEN bad
        ELSE IF ~(Len(p[1]) = 4 /\ AllDigits(p[1]) /\ MatchMonth(p[2]) /\ MatchDay(p[3])) THEN bad
        ELSE LET y == DigitsVal(p[1])
                 m == DigitsVal(p[2])
                 d == DigitsVal(LStrip(p[3]))
             IN  IF y >= 1 /\ DayInRange(y, m, d)
                 THEN [ok |-> TRUE, d |-> <<y, m, d>>]
                 ELSE bad

\* a <= b for two datetime.date values <<year, month, day>>
DateLeq(a, b) ==
    \/ a[1] < b[1]
    \/ a[1] = b[1] /\ a[2] < b[2]
    \/ a[1] = b[1] /\ a[2] = b[2] /\ a[3] <= b[3]

(***************************************************************************)
(* Values                                                                  *)
(***************************************************************************)

\* the date strings that occur in store records and in request parameters
D_1201 == <<"2", "0", "2", "5", "-", "1", "2", "-", "0", "1">>
D_1210 == <<"2", "0", "2", "5", "-", "1", "2", "-", "1", "0">>
D_122 == <<"2", "0", "2", "5", "-", "1", "2", "-", "2">>
D_1340 == <<"2", "0", "2", "5", "-", "1", "3", "-", "4", "0">>
D_12xx == <<"2", "0", "2", "5", "-", "1", "2", "-", "x", "x">>
D_foo == <<"f", "o", "o">>
Padded(s) == <<" ">> \o s \o <<" ">>

\* the value stored under a record's key 'Date': a str, a JSON number, or no key
StrDate(s) == [k |-> "str", s |-> s]
NumDate == [k |-> "num", s |-> <<>>]
NoDate == [k |-> "none", s |-> <<>>]

\* a record of the store: its 'Date' and its 'Is_Active' ("missing": no such key)
Rec(d, a) == [Date |-> d, Is_Active |-> a]

Records ==
    { Rec(StrDate(D_1201), "true"),
      Rec(StrDate(Padded(D_1201)), "false"),
      Rec(StrDate(D_1210), "true"),
      Rec(StrDate(D_122), "missing"),
      Rec(StrDate(D_1340), "false"),
      Rec(StrDate(D_12xx), "false"),
      Rec(NoDate, "true"),
      Rec(NumDate, "false") }

\* the longest record list the model stores or edits
MaxRecords == 2

RecordLists == UNION { [1..n -> Records] : n \in 0..MaxRecords }

\* DATA_FILE: absent, not parseable as JSON, or a JSON list of records
NoFile == [k |-> "absent", recs |-> <<>>]
BadFile == [k |-> "malformed", recs |-> <<>>]
ListFile(recs) == [k |-> "list", recs |-> recs]

Files == {NoFile, BadFile} \cup { ListFile(l) : l \in RecordLists }

\* a query parameter as st.query_params.get(name, [None]) returns it: the
\* default [None] when it is absent, the str itself, or a list of str
NoParam == [k |-> "missing", v |-> <<>>]
StrParam(s) == [k |-> "str", v |-> <<s>>]
ListParam(l) == [k |-> "list", v |-> l]

DateParams ==
    { NoParam, ListParam(<<>>), ListParam(<<D_1201>>),
      StrParam(<<>>), StrParam(D_1201), StrParam(Padded(D_1210)), StrParam(D_122),
      StrParam(D_1340), StrParam(D_12xx), StrParam(D_foo) }

KidParams ==
    { NoParam, ListParam(<<<<"2">>>>), ListParam(<<<<"1", "2">>>>),
      StrParam(<<>>), StrParam(<<"1">>), StrParam(<<"2">>), StrParam(<<"1", "2">>),
      StrParam(<<"x">>) }

\* date.today()
Todays == { <<2025, 11, 30>>, <<2025, 12, 1>>, <<2025, 12, 5>>, <<2026, 1, 6>> }

\* the door page's configuration: DEBUG_MODE, CALENDAR_YEAR, CALENDAR_MONTH
DoorEnvs ==
    [ DEBUG_MODE : BOOLEAN,
      CALENDAR : { <<2025, 11>>, <<2025, 12>>, <<2026, 1>> } ]

(***************************************************************************)
(* The door page, src/pages/01_Door_Message.py                             *)
(***************************************************************************)

\* the defensive cleaning of load_data: a str 'Date' is stripped
StripDate(r) ==
    IF r.Date.k = "str" THEN [r EXCEPT !.Date = StrDate(Strip(r.Date.s))] ELSE r

StripDates(recs) == [i \in 1..Len(recs) |-> StripDate(recs[i])]

\* load_data() of the door page: the records, and the st.error it shows
Door_load_data(f) ==
    IF f.k = "list" THEN [data |-> StripDates(f.recs), shown |-> "none"]
    ELSE IF f.k = "malformed" THEN [data |-> <<>>, shown |-> "error_reading_json"]
    ELSE [data |-> <<>>, shown |-> "error_file_not_found"]

\* the reason of a denial that check_access returns
R_NONE == "none"
R_FORMAT == "invalid_date_format"
R_WINDOW == "configured_month_not_active"
R_SEALED == "still_sealed"

\* check_access with the date gate today > requested_date
check_access_strict(env, today, requested_date_str) ==
    IF env.DEBUG_MODE THEN [ok |-> TRUE, reason |-> R_NONE]
    ELSE LET requested_date == ParseDate(requested_date_str)
         IN  IF ~requested_date.ok THEN [ok |-> FALSE, reason |-> R_FORMAT]
             ELSE IF today[1] # env.CALENDAR[1] \/ today[2] # env.CALENDAR[2]
             THEN [ok |-> FALSE, reason |-> R_WINDOW]
             ELSE IF ~DateLeq(today, requested_date.d)
             THEN [ok |-> TRUE, reason |-> R_NONE]
             ELSE [ok |-> FALSE, reason |-> R_SEALED]

\* check_access with the month and year checked before the date is parsed
check_access_window_first(env, today, requested_date_str) ==
    IF env.DEBUG_MODE THEN [ok |-> TRUE, reason |-> R_NONE]
    ELSE IF today[1] # env.CALENDAR[1] \/ today[2] # env.CALENDAR[2]
    THEN [ok |-> FALSE, reason |-> R_WINDOW]
    ELSE LET requested_date == ParseDate(requested_date_str)
         IN  IF ~requested_date.ok THEN [ok |-> FALSE, reason |-> R_FORMAT]
             ELSE IF DateLeq(requested_date.d, today)
             THEN [ok |-> TRUE, reason |-> R_NONE]
             ELSE [ok |-> FALSE, reason |-> R_SEALED]

\* check_access without the check of the configured month and year
check_access_no_window(env, today, requested_date_str) ==
    IF env.DEBUG_MODE THEN [ok |-> TRUE, reason |-> R_NONE]
    ELSE LET requested_date == ParseDate(requested_date_str)
         IN  IF ~requested_date.ok THEN [ok |-> FALSE, reason |-> R_FORMAT]
             ELSE IF DateLeq(requested_date.d, today)
             THEN [ok |-> TRUE, reason |-> R_NONE]
             ELSE [ok |-> FALSE, reason |-> R_SEALED]

\* check_access(requested_date_str) under the configuration env and date.today() = today
check_access(env, today, requested_date_str) ==
    IF env.DEBUG_MODE THEN [ok |-> TRUE, reason |-> R_NONE]
    ELSE LET requested_date == ParseDate(requested_date_str)
         IN  IF ~requested_date.ok THEN [ok |-> FALSE, reason |-> R_FORMAT]
             ELSE IF today[1] # env.CALENDAR[1] \/ today[2] # env.CALENDAR[2]
             THEN [ok |-> FALSE, reason |-> R_WINDOW]
             ELSE IF DateLeq(requested_date.d, today)
             THEN [ok |-> TRUE, reason |-> R_NONE]
             ELSE [ok |-> FALSE, reason |-> R_SEALED]

\* requested_date_str_raw: None (ok = FALSE) or the str of the 'date' parameter
RawDate(p) ==
    IF p.k = "str" THEN [ok |-> p.v[1] # <<>>, s |-> p.v[1]]
    ELSE IF p.k = "list" /\ p.v # <<>> /\ p.v[1] # <<>> THEN [ok |-> TRUE, s |-> p.v[1]]
    ELSE [ok |-> FALSE, s |-> <<>>]

\* int(query_params.get("kid", [None])[0]): the exception raised, or the value.
\* Indexing a str gives its first character, indexing a list its first element.
RequestedKid(p) ==
    IF p.k = "missing" THEN [exc |-> "TypeError", val |-> 0]
    ELSE IF p.v = <<>> \/ (p.k = "str" /\ p.v[1] = <<>>) THEN [exc |-> "IndexError", val |-> 0]
    ELSE LET requested_kid_str == IF p.k = "str" THEN <<p.v[1][1]>> ELSE p.v[1]
             n == PyInt(requested_kid_str)
         IN  IF ~n.ok THEN [exc |-> "ValueError", val |-> 0]
             ELSE IF n.val \notin {1, 2} THEN [exc |-> "ValueError", val |-> n.val]
             ELSE [exc |-> "none", val |-> n.val]

\* any(d['Date'] == requested_date_str for d in data): "yes", "no", or
\* "KeyError" when a record without 'Date' is met before a match
RECURSIVE DateExists(_, _)
DateExists(data, s) ==
    IF data = <<>> THEN "no"
    ELSE IF Head(data).Date.k = "none" THEN "KeyError"
    ELSE IF Head(data).Date = StrDate(s) THEN "yes"
    ELSE DateExists(Tail(data), s)

\* next((d for d in data if d.get('Date') == requested_date_str), None): the
\* index of the first such record, 0 for None
MessageRow(data, s) ==
    IF \E i \in 1..Len(data) : data[i].Date = StrDate(s)
    THEN CHOOSE i \in 1..Len(data) :
            /\ data[i].Date = StrDate(s)
            /\ \A j \in 1..(i - 1) : data[j].Date # StrDate(s)
    ELSE 0

\* int(requested_date_str.split('-')[2])
RequestedDay(s) ==
    LET p == SplitDash(s)
    IN  IF Len(p) < 3 THEN [exc |-> "IndexError", val |-> 0]
        ELSE IF ~PyInt(p[3]).ok THEN [exc |-> "ValueError", val |-> 0]
        ELSE [exc |-> "none", val |-> PyInt(p[3]).val]

\* what a run of the door page ends in
O_HALTED == "Halted"
O_INVALID == "InvalidParams"
O_DATAERROR == "DataError"
O_DISABLED == "Disabled"
O_DENIED == "Denied"
O_REVEALED == "Revealed"
O_CRASH == "UnhandledException"

\* the result of a run: the outcome, what the page shows, the child and the
\* record (index in the loaded data) the view is about, and what check_access
\* returned when the run called it
NotCalled == [called |-> FALSE, ok |-> FALSE, reason |-> R_NONE]
Called(access) == [called |-> TRUE, ok |-> access.ok, reason |-> access.reason]

Outcome(o, shown, kid, row, access) ==
    [outcome |-> o, shown |-> shown, kid |-> kid, row |-> row, access |-> access]

\* the part of main() after the try block: check_access, the message row, the
\* three views
Door_show(env, today, data, requested_date_str, requested_kid) ==
    LET access == Called(check_access(env, today, requested_date_str))
        row == MessageRow(data, requested_date_str)
    IN  IF row = 0 THEN Outcome(O_DATAERROR, "data_not_found", 0, 0, access)
        ELSE IF data[row].Is_Active # "true"
        THEN Outcome(O_DISABLED, "door_disabled", requested_kid, row, access)
        ELSE IF access.ok
        THEN Outcome(O_REVEALED, "message", requested_kid, row, access)
        ELSE Outcome(O_DENIED, "hold_your_horses", requested_kid, row, access)

\* main() of the door page
Door_main(f, env, today, dateParam, kidParam) ==
    LET loaded == Door_load_data(f)
        data == loaded.data
        raw == RawDate(dateParam)
        requested_date_str == Strip(raw.s)
        kid == RequestedKid(kidParam)
        exists == DateExists(data, requested_date_str)
        day == RequestedDay(requested_date_str)
    IN  IF data = <<>> THEN Outcome(O_HALTED, loaded.shown, 0, 0, NotCalled)
        ELSE IF ~raw.ok THEN Outcome(O_INVALID, "access_denied", 0, 0, NotCalled)
        ELSE IF kid.exc = "IndexError" THEN Outcome(O_CRASH, "IndexError", 0, 0, NotCalled)
        ELSE IF kid.exc # "none" THEN Outcome(O_INVALID, "access_denied", 0, 0, NotCalled)
        ELSE IF exists = "KeyError" THEN Outcome(O_CRASH, "KeyError", 0, 0, NotCalled)
        ELSE IF exists = "no" THEN Outcome(O_DATAERROR, "door_does_not_exist", 0, 0, NotCalled)
        ELSE IF day.exc = "IndexError" THEN Outcome(O_CRASH, "IndexError", 0, 0, NotCalled)
        ELSE IF day.exc # "none" THEN Outcome(O_INVALID, "access_denied", 0, 0, NotCalled)
        ELSE Door_show(env, today, data, requested_date_str, kid.val)

(***************************************************************************)
(* The admin page, src/pages/02_Admin.py                                   *)
(***************************************************************************)

\* load_data() of the admin page: the records, and the message it shows
Admin_load_data(f) ==
    IF f.k = "list" THEN [data |-> StripDates(f.recs), shown |-> "none"]
    ELSE IF f.k = "malformed" THEN [data |-> <<>>, shown |-> "error_loading_json"]
    ELSE [data |-> <<>>, shown |-> "warning_file_not_found_starting_empty"]

\* the check of one row in validate_data: "ok", or the error it reports
ValidateRow(row) ==
    IF row.Date.k # "str" \/ row.Date.s = <<>> THEN "date_empty_or_not_a_string"
    ELSE IF ~ParseDate(row.Date.s).ok THEN "date_not_in_format"
    ELSE "ok"

\* validate_data(data): row is the number i+1 that the error message names
validate_data(data) ==
    IF \A i \in 1..Len(data) : ValidateRow(data[i]) = "ok"
    THEN [ok |-> TRUE, row |-> 0, shown |-> "none"]
    ELSE LET i == CHOOSE k \in 1..Len(data) :
                      /\ ValidateRow(data[k]) # "ok"
                      /\ \A j \in 1..(k - 1) : ValidateRow(data[j]) = "ok"
         IN  [ok |-> FALSE, row |-> i, shown |-> ValidateRow(data[i])]

\* the sort key lambda x: x.get('Date', '0000-00-00')
D_0000 == <<"0", "0", "0", "0", "-", "0", "0", "-", "0", "0">>
SortKey(r) == IF r.Date.k = "none" THEN D_0000 ELSE r.Date.s

\* list.sort / sorted by that key: stable, ascending by str comparison
RECURSIVE Insert(_, _)
Insert(r, sorted) ==
    IF sorted = <<>> THEN <<r>>
    ELSE IF StrLess(SortKey(r), SortKey(Head(sorted))) THEN <<r>> \o sorted
    ELSE <<Head(sorted)>> \o Insert(r, Tail(sorted))

RECURSIVE SortByDate(_)
SortByDate(data) ==
    IF data = <<>> THEN <<>>
    ELSE Insert(data[Len(data)], SortByDate(SubSeq(data, 1, Len(data) - 1)))

\* what the write of save_data meets: no failure, open() raising (the file is
\* not touched), or json.dump raising after open() has truncated the file
IoOutcomes == {"ok", "open_fails", "dump_fails"}

NoSave == [status |-> "none", row |-> 0, io |-> "none"]

\* save_data(data): the file afterwards, what is reported, and data, which
\* the call sorts in place
WriteFile(f, sorted, io) ==
    IF io = "open_fails"
    THEN [file |-> f, data |-> sorted,
          save |-> [status |-> "error_saving", row |-> 0, io |-> io]]
    ELSE IF io = "dump_fails"
    THEN [file |-> BadFile, data |-> sorted,
          save |-> [status |-> "error_saving", row |-> 0, io |-> io]]
    ELSE [file |-> ListFile(sorted), data |-> sorted,
          save |-> [status |-> "saved", row |-> 0, io |-> io]]

SaveChecked(f, data, io, v) ==
    IF ~v.ok
    THEN [file |-> f, data |-> data,
          save |-> [status |-> "validation_failed", row |-> v.row, io |-> "none"]]
    ELSE WriteFile(f, SortByDate(data), io)

\* save_data that reports a failed validation and writes the records all the same
save_data_writes_anyway(f, data, io) ==
    IF validate_data(data).ok THEN WriteFile(f, SortByDate(data), io)
    ELSE [file |-> ListFile(data), data |-> data,
          save |-> [status |-> "validation_failed", row |-> validate_data(data).row,
                    io |-> "none"]]

save_data(f, data, io) == SaveChecked(f, data, io, validate_data(data))

\* ADMIN_PASSWORD as configured (it may be empty), and what a user types
AdminPasswords == {"", "7623"}
Entries == {"7623", "0000"}

\* the callback password_entered, run when the password input changed
password_entered(ADMIN_PASSWORD, entry) ==
    IF entry = ADMIN_PASSWORD THEN "true" ELSE "false"

\* check_password that shows the prompt once and lets every later run through
check_password_once(ADMIN_PASSWORD, pc) ==
    IF ADMIN_PASSWORD = "" THEN "stopped_no_password"
    ELSE IF pc = "unset" THEN "prompt"
    ELSE "panel"

\* check_password(): st.stop() without ADMIN_PASSWORD, else the prompt or True
check_password(ADMIN_PASSWORD, pc) ==
    IF ADMIN_PASSWORD = "" THEN "stopped_no_password"
    ELSE IF pc = "unset" THEN "prompt"
    ELSE IF pc # "true" THEN "prompt_incorrect"
    ELSE "panel"

\* the records with a true 'Is_Active', in their order
RECURSIVE ActiveOnly(_)
ActiveOnly(data) ==
    IF data = <<>> THEN <<>>
    ELSE IF Head(data).Is_Active = "true" THEN <<Head(data)>> \o ActiveOnly(Tail(data))
    ELSE ActiveOnly(Tail(data))

NoQr == [status |-> "not_reached", dates |-> <<>>]

\* section 2 of admin_panel: the dates QR codes are generated for (each for
\* both children; the single door view shows one of the same dates).  sorted()
\* raises on keys of mixed types, d['Date'] on a record without the key, and
\* split('-')[2] on a date that is no str or has fewer than three parts.
QrOfSorted(active_doors) ==
    IF active_doors[1].Date.k = "num"
    THEN [status |-> "AttributeError", dates |-> <<>>]
    ELSE IF \E i \in 1..Len(active_doors) : Len(SplitDash(active_doors[i].Date.s)) < 3
    THEN [status |-> "IndexError", dates |-> <<>>]
    ELSE [status |-> "generated",
          dates |-> [i \in 1..Len(active_doors) |-> active_doors[i].Date.s]]

QrOfActive(active) ==
    IF active = <<>> THEN [status |-> "no_active_doors", dates |-> <<>>]
    ELSE IF /\ \E i \in 1..Len(active) : active[i].Date.k = "num"
            /\ \E i \in 1..Len(active) : active[i].Date.k # "num"
    THEN [status |-> "TypeError", dates |-> <<>>]
    ELSE IF \E i \in 1..Len(active) : active[i].Date.k = "none"
    THEN [status |-> "KeyError", dates |-> <<>>]
    ELSE QrOfSorted(SortByDate(active))

QrSection(edited_data) == QrOfActive(ActiveOnly(edited_data))

\* admin_panel(initial_data): the editor returns edited_data, the Save button
\* calls save_data, then the QR section runs on edited_data
PanelAfterSave(edited_data, saveClicked, saved) ==
    [file |-> saved.file, edited |-> edited_data, clicked |-> saveClicked,
     save |-> saved.save, qr |-> QrSection(saved.data)]

admin_panel(f, edited_data, saveClicked, io) ==
    PanelAfterSave(edited_data, saveClicked,
                   IF saveClicked THEN save_data(f, edited_data, io)
                   ELSE [file |-> f, data |-> edited_data, save |-> NoSave])

NoPanel(f) == [file |-> f, edited |-> <<>>, clicked |-> FALSE, save |-> NoSave, qr |-> NoQr]

\* the script of the admin page: load_data, check_password, admin_panel
AdminRunOf(f, ADMIN_PASSWORD, loaded, reached, panel) ==
    [file |-> panel.file,
     run |-> [ran |-> TRUE, ADMIN_PASSWORD |-> ADMIN_PASSWORD, before |-> f,
              load_shown |-> loaded.shown, initial_data |-> loaded.data,
              reached |-> reached, edited |-> panel.edited, clicked |-> panel.clicked,
              save |-> panel.save, qr |-> panel.qr]]

\* the admin script with the door page's "if not data: st.stop()" after load_data
Admin_main_stops_without_data(f, ADMIN_PASSWORD, pc, edited_data, saveClicked, io) ==
    AdminRunOf(f, ADMIN_PASSWORD, Admin_load_data(f),
               IF Admin_load_data(f).data = <<>> THEN "stopped_no_data"
               ELSE check_password(ADMIN_PASSWORD, pc),
               IF Admin_load_data(f).data # <<>> /\ check_password(ADMIN_PASSWORD, pc) = "panel"
               THEN admin_panel(f, edited_data, saveClicked, io)
               ELSE NoPanel(f))

Admin_main(f, ADMIN_PASSWORD, pc, edited_data, saveClicked, io) ==
    AdminRunOf(f, ADMIN_PASSWORD, Admin_load_data(f), check_password(ADMIN_PASSWORD, pc),
               IF check_password(ADMIN_PASSWORD, pc) = "panel"
               THEN admin_panel(f, edited_data, saveClicked, io)
               ELSE NoPanel(f))

\* the record of one run of the door page
DoorIdle ==
    [ran |-> FALSE, env |-> [DEBUG_MODE |-> FALSE, CALENDAR |-> <<2025, 12>>],
     today |-> <<2025, 12, 1>>, date |-> NoParam, kid |-> NoParam,
     result |-> Outcome("none", "none", 0, 0, NotCalled)]

AdminIdle ==
    [ran |-> FALSE, ADMIN_PASSWORD |-> "", entry |-> "none", before |-> NoFile,
     load_shown |-> "none", initial_data |-> <<>>, reached |-> "none", edited |-> <<>>,
     clicked |-> FALSE, save |-> NoSave, qr |-> NoQr]

\* one request of the door page.  A run keeps nothing of the run before it:
\* the record of a run is discarded (Close) before the next run starts.
DoorRun ==
    /\ ~door.ran /\ ~admin.ran
    /\ \E env \in DoorEnvs, today \in Todays, dateParam \in DateParams, kidParam \in KidParams :
          door' = [ran |-> TRUE, env |-> env, today |-> today, date |-> dateParam,
                   kid |-> kidParam,
                   result |-> Door_main(file, env, today, dateParam, kidParam)]
    /\ admin' = AdminIdle
    /\ UNCHANGED <<file, password_correct, widgets>>

InitDoor ==
    /\ file \in Files
    /\ password_correct = "unset"
    /\ widgets = "none"
    /\ door = DoorIdle
    /\ admin = AdminIdle

\* the run is over: nothing of it but the file and the session state outlives it
Close ==
    /\ door.ran \/ admin.ran
    /\ door' = DoorIdle
    /\ admin' = AdminIdle
    /\ UNCHANGED <<file, password_correct, widgets>>

NextDoor == DoorRun \/ Close

SpecDoor == InitDoor /\ [][NextDoor]_vars

\* one run of the admin page.  The run is started by the user opening or
\* reloading the page (entry "none"), by a password typed into the prompt of
\* the run before (the callback runs first), or by an interaction with the
\* panel: an edit in the editor, a click on Save.
\* the record of a run, with the password entry that started it ("none" when
\* the run was started otherwise)
RunStartedBy(entry, run) ==
    [ran |-> run.ran, ADMIN_PASSWORD |-> run.ADMIN_PASSWORD, entry |-> entry,
     before |-> run.before, load_shown |-> run.load_shown,
     initial_data |-> run.initial_data, reached |-> run.reached, edited |-> run.edited,
     clicked |-> run.clicked, save |-> run.save, qr |-> run.qr]

AdminApply(pc, entry, r) ==
    /\ password_correct' = pc
    /\ widgets' = (IF r.run.reached \in {"prompt", "prompt_incorrect"} THEN "prompt"
                   ELSE IF r.run.reached = "panel" THEN "panel" ELSE "none")
    /\ file' = r.file
    /\ admin' = RunStartedBy(entry, r.run)
    /\ door' = DoorIdle

\* session_state["password_correct"] when the script starts
PcAtStart(ADMIN_PASSWORD, entry) ==
    IF entry = "none" THEN password_correct ELSE password_entered(ADMIN_PASSWORD, entry)

AdminStep(ADMIN_PASSWORD, entry, edited_data, saveClicked, io) ==
    AdminApply(PcAtStart(ADMIN_PASSWORD, entry), entry,
               Admin_main(file, ADMIN_PASSWORD, PcAtStart(ADMIN_PASSWORD, entry),
                          edited_data, saveClicked, io))

\* a run that does not reach the panel
AdminGate ==
    /\ ~door.ran /\ ~admin.ran
    /\ \E ADMIN_PASSWORD \in AdminPasswords, entry \in Entries \cup {"none"} :
          /\ entry # "none" => widgets = "prompt"
          /\ check_password(ADMIN_PASSWORD, PcAtStart(ADMIN_PASSWORD, entry)) # "panel"
          /\ AdminStep(ADMIN_PASSWORD, entry, <<>>, FALSE, "ok")

\* a run that reaches the panel.  The editor returns edited_data: the loaded
\* records with the user's edits, which may be any record list once the panel
\* has been rendered; Save can be clicked only on a rendered panel.
AdminPanel ==
    /\ ~door.ran /\ ~admin.ran
    /\ \E ADMIN_PASSWORD \in AdminPasswords, entry \in Entries \cup {"none"} :
          /\ entry # "none" => widgets = "prompt"
          /\ check_password(ADMIN_PASSWORD, PcAtStart(ADMIN_PASSWORD, entry)) = "panel"
          /\ \E edited_data \in RecordLists \cup {Admin_load_data(file).data},
                   saveClicked \in BOOLEAN, io \in IoOutcomes :
                /\ widgets # "panel" => edited_data = Admin_load_data(file).data /\ ~saveClicked
                /\ io # "ok" => saveClicked /\ validate_data(edited_data).ok
                /\ AdminStep(ADMIN_PASSWORD, entry, edited_data, saveClicked, io)

\* the browser page is reloaded or opened anew: a new Streamlit session
NewSession ==
    /\ ~door.ran /\ ~admin.ran
    /\ password_correct # "unset" \/ widgets # "none"
    /\ password_correct' = "unset"
    /\ widgets' = "none"
    /\ UNCHANGED <<file, door, admin>>

InitAdmin == InitDoor

NextAdmin == AdminGate \/ AdminPanel \/ NewSession \/ Close

SpecAdmin == InitAdmin /\ [][NextAdmin]_vars

(***************************************************************************)
(* Properties                                                              *)
(***************************************************************************)

\* The calendar date each date string of the model denotes, <<0, 0, 0>> for
\* a string that is no date in the form year-month-day.
NotADate == <<0, 0, 0>>
CalendarDate(s) ==
    CASE s = D_1201 -> <<2025, 12, 1>>
      [] s = D_1210 -> <<2025, 12, 10>>
      [] s = D_122 -> <<2025, 12, 2>>
      [] OTHER -> NotADate

\* calendar day a is earlier than calendar day b
Earlier(a, b) == a[1] * 10000 + a[2] * 100 + a[3] < b[1] * 10000 + b[2] * 100 + b[3]

\* the date string a door run looks up: the 'date' parameter, trimmed
Requested == Strip(RawDate(door.date).s)

\* the kid parameter is exactly '1' or '2' (given as a str or as a list of one str)
KidExact ==
    door.kid \in { StrParam(<<"1">>), StrParam(<<"2">>),
                   ListParam(<<<<"1">>>>), ListParam(<<<<"2">>>>) }

\* the records the door run loaded
Loaded == StripDates(file.recs)

InWindow == door.today[1] = door.env.CALENDAR[1] /\ door.today[2] = door.env.CALENDAR[2]

\* C1: with the debug override off and today in the configured month and
\* year, check_access allows every date on or before today and denies every
\* later date, whatever the date's own month and year.
C1_GateFollowsDate ==
    (door.ran /\ door.result.access.called /\ ~door.env.DEBUG_MODE /\ InWindow
        /\ CalendarDate(Requested) # NotADate)
    => (door.result.access.ok <=> ~Earlier(door.today, CalendarDate(Requested)))

\* C1 witness: a date of December 2025 is allowed in January 2026, the
\* configured month
C1_Witness ==
    /\ door.ran /\ door.result.access.called /\ ~door.env.DEBUG_MODE
    /\ door.env.CALENDAR = <<2026, 1>> /\ door.today = <<2026, 1, 6>>
    /\ Requested = D_1201
    /\ door.result.access.ok /\ door.result.outcome = O_REVEALED

\* C2: a request with kid 1 or 2 whose date is the date of a record that is
\* not active ends in Disabled.
C2_InactiveAlwaysDisabled ==
    (door.ran /\ file.k = "list" /\ KidExact /\ RawDate(door.date).ok
        /\ \E i \in 1..Len(Loaded) :
              Loaded[i].Date = StrDate(Requested) /\ Loaded[i].Is_Active # "true")
    => door.result.outcome = O_DISABLED

\* C3: with a loaded store, a request with kid 1 or 2 whose date is the date
\* of no record ends in DataError, "door does not exist".
C3_UnknownDateIsDataError ==
    (door.ran /\ file.k = "list" /\ KidExact /\ RawDate(door.date).ok
        /\ \A i \in 1..Len(Loaded) : Loaded[i].Date # StrDate(Requested))
    => (door.result.outcome = O_DATAERROR /\ door.result.shown = "door_does_not_exist")

\* C4: a request whose kid parameter is not exactly '1' or '2' never ends in
\* Disabled, Denied or Revealed.
C4_OnlyKid1Or2 ==
    (door.ran /\ ~KidExact)
    => door.result.outcome \notin {O_DISABLED, O_DENIED, O_REVEALED}

\* C8 as claimed: outside the configured month and year check_access gives
\* the reason naming the configured window for every date string.
C8_WindowBeforeParse ==
    (door.ran /\ door.result.access.called /\ ~door.env.DEBUG_MODE /\ ~InWindow)
    => (~door.result.access.ok /\ door.result.access.reason = R_WINDOW)

\* C8 as amended: outside the configured month and year check_access denies
\* every date string; the reason names the configured window when the date
\* parses and is the format error when it does not (the date is parsed first).
C8_ParseBeforeWindow ==
    (door.ran /\ door.result.access.called /\ ~door.env.DEBUG_MODE /\ ~InWindow)
    => /\ ~door.result.access.ok
       /\ CalendarDate(Requested) # NotADate => door.result.access.reason = R_WINDOW
       /\ CalendarDate(Requested) = NotADate => door.result.access.reason = R_FORMAT

\* C8 witness: outside the window the date 2025-13-40 gets the format error
C8_Witness ==
    /\ door.ran /\ door.result.access.called /\ ~door.env.DEBUG_MODE /\ ~InWindow
    /\ Requested = D_1340
    /\ door.result.access.reason = R_FORMAT

\* the example of C9: the store holds the one active record 2025-12-01, the
\* configuration is 12/2025 without debug, today is 2025-11-30, and the
\* request is date=2025-12-01, kid=1
C9_Example ==
    /\ door.ran
    /\ file = ListFile(<<Rec(StrDate(D_1201), "true")>>)
    /\ door.env = [DEBUG_MODE |-> FALSE, CALENDAR |-> <<2025, 12>>]
    /\ door.today = <<2025, 11, 30>>
    /\ door.date = StrParam(D_1201)
    /\ door.kid = StrParam(<<"1">>)

\* C9 as claimed: the example ends in Denied with the "still sealed" reason.
C9_StillSealed ==
    C9_Example => (door.result.outcome = O_DENIED /\ door.result.access.reason = R_SEALED)

\* C9 as amended: the example ends in Denied, and the reason shown is the one
\* naming the configured month and year as not active.
C9_NotActiveReason ==
    C9_Example
    => /\ door.result.outcome = O_DENIED
       /\ door.result.shown = "hold_your_horses"
       /\ door.result.access.reason = R_WINDOW

\* C9 witness: the example has run and was denied
C9_Witness == C9_Example /\ door.result.outcome = O_DENIED /\ door.result.kid = 1

\* a record whose 'Date' is missing, no str, or no date
Offending(r) == r.Date.k # "str" \/ CalendarDate(r.Date.s) = NotADate

\* the admin run reached save_data
SaveCalled == admin.ran /\ admin.reached = "panel" /\ admin.clicked

C6_SavedStoreChronological ==
    (SaveCalled /\ admin.save.status = "saved")
    => /\ file.k = "list"
       /\ \A i, j \in 1..Len(file.recs) :
             i < j => ~Earlier(CalendarDate(file.recs[j].Date.s),
                               CalendarDate(file.recs[i].Date.s))

\* two records of the list have the same date
HasDuplicateDate(recs) ==
    \E i, j \in 1..Len(recs) :
        i # j /\ recs[i].Date.k = "str" /\ recs[i].Date = recs[j].Date

\* C7: an admin run that starts from a store with unique dates leaves a
\* store with unique dates: a save of records with a duplicate date is
\* rejected and the file is unchanged.
C7_DatesStayUnique ==
    (admin.ran /\ admin.before.k = "list" /\ ~HasDuplicateDate(admin.before.recs))
    => /\ file.k = "list" => ~HasDuplicateDate(file.recs)
       /\ (admin.clicked /\ HasDuplicateDate(admin.edited))
             => (file = admin.before /\ admin.save.status # "saved")

\* a run of the door page on file f halts with an error shown, whatever the request
DoorHaltsWithError(f) ==
    \A env \in DoorEnvs, today \in Todays, dateParam \in DateParams, kidParam \in KidParams :
        /\ Door_main(f, env, today, dateParam, kidParam).outcome = O_HALTED
        /\ Door_main(f, env, today, dateParam, kidParam).shown
              \in {"error_file_not_found", "error_reading_json"}

\* C10 as claimed: a door request made when the file is absent or malformed
\* halts with an error, and the admin page halts too after such a load: its
\* panel (editor, Save, QR generation) is not reached.
C10_FailedLoadHaltsBothPages ==
    /\ (~door.ran /\ ~admin.ran /\ file.k # "list") => DoorHaltsWithError(file)
    /\ (admin.ran /\ admin.before.k # "list") => admin.reached # "panel"

\* C10 as amended: after such a load the door page halts with an error; the
\* admin page shows a warning (NotFound) or an error (ParseError) and goes on
\* with an empty record list, so that with the password accepted the panel
\* is reached in that run.
C10_DoorHaltsAdminContinues ==
    /\ (~door.ran /\ ~admin.ran /\ file.k # "list") => DoorHaltsWithError(file)
    /\ (admin.ran /\ admin.before.k # "list")
          => /\ admin.load_shown
                   \in {"warning_file_not_found_starting_empty", "error_loading_json"}
             /\ admin.initial_data = <<>>
             /\ admin.reached = "panel"
                   <=> (admin.ADMIN_PASSWORD # "" /\ password_correct = "true")

\* C10 witness: with the file absent the admin panel is reached, Save writes
\* the file and QR codes are generated
C10_Witness ==
    /\ admin.ran /\ admin.before = NoFile /\ admin.reached = "panel"
    /\ admin.save.status = "saved" /\ file.k = "list"
    /\ admin.qr.status = "generated"

\* in the state a run leaves: save_data and the panel only with a true
\* password_correct, a wrong entry leaves it false, no panel without ADMIN_PASSWORD
SaveBehindPassword ==
    /\ (admin.ran /\ admin.save.status # "none") => password_correct = "true"
    /\ (admin.ran /\ admin.reached = "panel") => password_correct = "true"
    /\ (admin.ran /\ admin.entry \notin {"none", admin.ADMIN_PASSWORD})
          => password_correct = "false"
    /\ (admin.ran /\ admin.ADMIN_PASSWORD = "")
          => (admin.reached = "stopped_no_password" /\ admin.save.status = "none")

\* in a step: the file changes only by a Save of a run with a true
\* password_correct, which becomes true only by an entry equal to ADMIN_PASSWORD
PasswordStep ==
    /\ file' # file => (admin'.ran /\ admin'.clicked /\ password_correct' = "true")
    /\ (password_correct' = "true" /\ password_correct # "true")
          => (admin'.ran /\ admin'.entry = admin'.ADMIN_PASSWORD)

\* C11: save_data is reached, and the file changes, only in a run in which
\* password_correct is true; password_correct becomes true only by an entry
\* equal to ADMIN_PASSWORD; a wrong entry sets it to false; with an empty
\* ADMIN_PASSWORD the panel is not reached.
C11_SaveOnlyBehindPassword == []SaveBehindPassword /\ [][PasswordStep]_vars

\* C11 witness: in a session whose password was accepted, a run started by
\* the Save button has written the file
C11_Witness ==
    /\ admin.ran /\ admin.entry = "none" /\ admin.clicked
    /\ admin.save.status = "saved" /\ file # admin.before
    /\ password_correct = "true"

\* C12: every door request against a loaded store with at least one record
\* ends in InvalidParams, DataError, Disabled, Denied or Revealed, never in
\* an unhandled exception.
C12_EveryRequestHandled ==
    (door.ran /\ file.k = "list" /\ file.recs # <<>>)
    => door.result.outcome \in {O_INVALID, O_DATAERROR, O_DISABLED, O_DENIED, O_REVEALED}

\* the file holds an active record of date d, as the door page loads it
PersistedActive(d) ==
    /\ file.k = "list"
    /\ \E j \in 1..Len(file.recs) :
          StripDate(file.recs[j]).Date = StrDate(d) /\ file.recs[j].Is_Active = "true"

\* the door page answers the link generate_qr_code builds for date d and a
\* child with "door does not exist", or halts on a store without records
LinkLeadsNowhere(d) ==
    \E env \in DoorEnvs, today \in Todays, kid \in {<<"1">>, <<"2">>} :
        \/ Door_main(file, env, today, StrParam(d), StrParam(kid)).shown = "door_does_not_exist"
        \/ Door_main(file, env, today, StrParam(d), StrParam(kid)).outcome = O_HALTED

\* C13: every date QR generation produces links for in a run is the date of
\* an active record of the file as that run leaves it, and the door page
\* does not answer such a link with "door does not exist".
C13_LinksNamePersistedDoors ==
    (admin.ran /\ admin.qr.status = "generated")
    => \A i \in 1..Len(admin.qr.dates) :
          PersistedActive(admin.qr.dates[i]) /\ ~LinkLeadsNowhere(admin.qr.dates[i])

====
